---- MODULE Spec2Model ----
(***************************************************************************)
(* Image-editing session of src/App.tsx: the React state of App, the       *)
(* event handlers the rendered controls can invoke, and the continuations  *)
(* of the two asynchronous calls (fileToBase64, enhanceImage).             *)
(*                                                                         *)
(* An optional value (string | null) is a set with at most one element:    *)
(* Null is the empty set and Some(v) is {v}.  A JavaScript string that the *)
(* code inspects (customPrompt) is a sequence of one-character strings.    *)
(***************************************************************************)
EXTENDS FiniteSets, Integers, Sequences, TLC

\* ---- bounds of the exploration ----
NumFiles == 2        \* distinct files the user can pick or drop
MaxCalls == 4        \* asynchronous calls started in one behaviour
MaxPromptLen == 1    \* characters typed into the custom prompt
MaxShortCalls == 3   \* asynchronous calls started in a behaviour checked exhaustively
MaxLiveCalls == 2    \* asynchronous calls started in a behaviour checked for liveness
MaxBarCalls == 2     \* asynchronous calls started in a behaviour that follows the ProgressBar
MaxHandlerCalls == 2 \* asynchronous calls started when the handlers are called directly

Null == {}
Some(v) == {v}
The(o) == CHOOSE v \in o : TRUE

Files == 1..NumFiles

\* ---- preset catalog ----
FILTERS ==
  << [id |-> "enhance",   prompt |-> <<"Professionally enhance this image with balanced brightness, contrast, and color saturation. Make it look crisp and clear.">>],
     [id |-> "sharpen",   prompt |-> <<"Increase the sharpness and clarity of this image. Bring out the fine details without creating artifacts.">>],
     [id |-> "color_pop", prompt |-> <<"Make the colors in this image more vibrant and saturated. Enhance the overall color pop, especially in the main subject.">>],
     [id |-> "vintage",   prompt |-> <<"Apply a vintage film look to this image. Add a slight grain, desaturate the colors a bit, and give it a warm, nostalgic feel.">>],
     [id |-> "grayscale", prompt |-> <<"Convert this image to a high-contrast black and white.">>] >>

\* ---- strings typed by the user ----
Chars == {" ", "g"}
PromptTexts == UNION {[1..n -> Chars] : n \in 0..MaxPromptLen}

IsSpace(c) == c = " "

RECURSIVE TrimStart(_)
TrimStart(s) == IF s # <<>> /\ IsSpace(Head(s)) THEN TrimStart(Tail(s)) ELSE s

RECURSIVE TrimEnd(_)
TrimEnd(s) ==
  IF s # <<>> /\ IsSpace(s[Len(s)]) THEN TrimEnd(SubSeq(s, 1, Len(s) - 1)) ELSE s

\* the string used as it is, with no trim() call
Untrimmed(s) == s
\* String.prototype.trim
Trim(s) == TrimEnd(TrimStart(s))

\* a JavaScript string is truthy iff it is not empty
Truthy(s) == s # <<>>

\* ---- external calls ----
\* fileToBase64(file) resolves with the data URI of the file; the image value
\* records the file it encodes and the instructions applied to it since.
FileToBase64(f) == [base |-> f, edits |-> <<>>]

\* enhanceImage(source, prompt) resolves with a new image
EnhanceImage(source, prompt) ==
  [base |-> source.base, edits |-> Append(source.edits, prompt)]

\* err.message of a rejected enhanceImage call
EngineMessages == {"", "quota exceeded"}

LoadErrorText == "Failed to load image. Please try again."
EnhanceErrorText(msg) == "Enhancement failed: " \o msg

VARIABLES
  originalImage,   \* useState<string | null>
  enhancedImage,   \* useState<string | null>
  isLoading,       \* useState<boolean>
  error,           \* useState<string | null>
  customPrompt,    \* useState<string>
  activeFilter,    \* useState<string | null>
  codecCalls,      \* outstanding fileToBase64 promises
  engineCalls,     \* outstanding enhanceImage promises
  calls,           \* asynchronous calls started so far
  lastEvent,       \* the event handled last (history)
  barMounted,      \* a ProgressBar instance exists
  progress,        \* ProgressBar: useState(0), in units of 1/Scale
  barInterval,     \* ProgressBar: the setInterval timer is running
  effectDue        \* ProgressBar: a render changed isLoading and its effect has not run

session == <<originalImage, enhancedImage, isLoading, error, customPrompt, activeFilter>>
bar == <<barMounted, progress, barInterval, effectDue>>
vars == <<originalImage, enhancedImage, isLoading, error, customPrompt, activeFilter,
          codecCalls, engineCalls, calls, lastEvent,
          barMounted, progress, barInterval, effectDue>>

NoCall == [id |-> 0]

\* history: the event handled last, whether its control let it through, the
\* value of isLoading when it arrived, the asynchronous call it started or
\* completed, and the event handled before it
Event(op, accepted, wasLoading, call) ==
  [op |-> op, accepted |-> accepted, wasLoading |-> wasLoading, call |-> call,
   prev |-> lastEvent.op]

Init ==
  /\ originalImage = Null
  /\ enhancedImage = Null
  /\ isLoading = FALSE
  /\ error = Null
  /\ customPrompt = <<>>
  /\ activeFilter = Null
  /\ codecCalls = {}
  /\ engineCalls = {}
  /\ calls = 0
  /\ lastEvent = [op |-> "init", accepted |-> TRUE, wasLoading |-> FALSE,
                  call |-> NoCall, prev |-> "init"]
  /\ barMounted = FALSE
  /\ progress = 0
  /\ barInterval = FALSE
  /\ effectDue = FALSE

\* ---- what the render shows ----
\* {!originalImage && <ImageUploader .../>}
UploaderRendered == originalImage = Null
\* {originalImage && ( ...viewer, control panel, action buttons... )}
PanelRendered == originalImage # Null

\* <input type="file" ... disabled={isLoading} />
FileInputEnabled == ~isLoading
\* filter buttons without the disabled attribute
FilterButtonAlwaysEnabled == TRUE
\* filter buttons: disabled={isLoading}
FilterButtonEnabled == ~isLoading
\* text input: disabled={isLoading}
PromptInputEnabled == ~isLoading
\* submit button: disabled={isLoading || !customPrompt.trim()}
SubmitEnabled == ~(isLoading \/ ~Truthy(Trim(customPrompt)))
\* Start Over: disabled={isLoading}
ResetEnabled == ~isLoading
\* Revert All: disabled={!enhancedImage || isLoading}
RevertEnabled == ~(enhancedImage = Null \/ isLoading)

\* ---- handlers ----
\* handleImageUpload up to its await
handleImageUpload(f, op) ==
  LET call == [id |-> calls + 1, file |-> f,
               orig |-> originalImage, cur |-> enhancedImage]
  IN /\ isLoading' = TRUE
     /\ error' = Null
     /\ originalImage' = Null
     /\ enhancedImage' = Null
     /\ codecCalls' = codecCalls \cup {call}
     /\ calls' = calls + 1
     /\ lastEvent' = Event(op, TRUE, isLoading, call)
     /\ UNCHANGED <<customPrompt, activeFilter, engineCalls>>

Rejected(op) ==
  /\ lastEvent' = Event(op, FALSE, isLoading, NoCall)
  /\ UNCHANGED <<session, codecCalls, engineCalls, calls>>

\* the user picks a file in the file dialog (handleFileChange)
FilePick(f) ==
  /\ UploaderRendered
  /\ calls < MaxCalls
  /\ IF FileInputEnabled THEN handleImageUpload(f, "pick") ELSE Rejected("pick")

\* the user drops a file on the label (handleDrop)
Drop(f) ==
  /\ UploaderRendered
  /\ calls < MaxCalls
  /\ handleImageUpload(f, "drop")

\* handleImageUpload after its await: fileToBase64 resolved
CodecResolve(c) ==
  /\ c \in codecCalls
  /\ originalImage' = Some(FileToBase64(c.file))
  /\ isLoading' = FALSE
  /\ codecCalls' = codecCalls \ {c}
  /\ lastEvent' = Event("codecOk", TRUE, isLoading, c)
  /\ UNCHANGED <<enhancedImage, error, customPrompt, activeFilter, engineCalls, calls>>

\* the rejected path with setIsLoading(false) left in the try block only
CodecRejectKeepsLoading(c) ==
  /\ c \in codecCalls
  /\ error' = Some(LoadErrorText)
  /\ codecCalls' = codecCalls \ {c}
  /\ lastEvent' = Event("codecFail", TRUE, isLoading, c)
  /\ UNCHANGED <<originalImage, enhancedImage, isLoading, customPrompt, activeFilter,
                 engineCalls, calls>>

\* handleImageUpload after its await: fileToBase64 rejected
CodecReject(c) ==
  /\ c \in codecCalls
  /\ error' = Some(LoadErrorText)
  /\ isLoading' = FALSE
  /\ codecCalls' = codecCalls \ {c}
  /\ lastEvent' = Event("codecFail", TRUE, isLoading, c)
  /\ UNCHANGED <<originalImage, enhancedImage, customPrompt, activeFilter, engineCalls, calls>>

\* const sourceImage = originalImage || enhancedImage
SourceImageSwapped(enh, orig) == IF orig # Null THEN orig ELSE enh
\* const sourceImage = enhancedImage || originalImage
SourceImage(enh, orig) == IF enh # Null THEN enh ELSE orig

\* runEnhancement up to its await
runEnhancement(prompt, op) ==
  LET sourceImage == SourceImage(enhancedImage, originalImage)
      call == [id |-> calls + 1, source |-> sourceImage, prompt |-> prompt,
               orig |-> originalImage, cur |-> enhancedImage, err |-> error,
               abandoned |-> FALSE]
  IN IF sourceImage = Null
     THEN /\ lastEvent' = Event(op, TRUE, isLoading, NoCall)
          /\ UNCHANGED <<isLoading, error, engineCalls, calls>>
     ELSE /\ isLoading' = TRUE
          /\ error' = Null
          /\ engineCalls' = engineCalls \cup {call}
          /\ calls' = calls + 1
          /\ lastEvent' = Event(op, TRUE, isLoading, call)

handleFilterClick(filter) ==
  /\ activeFilter' = Some(filter.id)
  /\ customPrompt' = <<>>
  /\ runEnhancement(filter.prompt, "preset")
  /\ UNCHANGED <<originalImage, enhancedImage, codecCalls>>

handleCustomEnhance ==
  IF Truthy(Trim(customPrompt))
  THEN /\ activeFilter' = Null
       /\ runEnhancement(customPrompt, "custom")
       /\ UNCHANGED <<originalImage, enhancedImage, customPrompt, codecCalls>>
  ELSE /\ lastEvent' = Event("custom", TRUE, isLoading, NoCall)
       /\ UNCHANGED <<session, codecCalls, engineCalls, calls>>

\* the user clicks one of the filter buttons
PresetClick(i) ==
  /\ PanelRendered
  /\ calls < MaxCalls
  /\ IF FilterButtonEnabled THEN handleFilterClick(FILTERS[i]) ELSE Rejected("preset")

\* the user edits the text input (onChange)
TypePrompt(t) ==
  /\ PanelRendered
  /\ PromptInputEnabled
  /\ t # customPrompt
  /\ customPrompt' = t
  /\ lastEvent' = Event("type", TRUE, isLoading, NoCall)
  /\ UNCHANGED <<originalImage, enhancedImage, isLoading, error, activeFilter,
                 codecCalls, engineCalls, calls>>

\* the user submits the custom-instruction form (onSubmit)
CustomSubmit ==
  /\ PanelRendered
  /\ calls < MaxCalls
  /\ IF SubmitEnabled THEN handleCustomEnhance ELSE Rejected("custom")

\* runEnhancement after its await: enhanceImage resolved
EngineResolve(r) ==
  /\ r \in engineCalls
  /\ enhancedImage' = Some(EnhanceImage(The(r.source), r.prompt))
  /\ isLoading' = FALSE
  /\ engineCalls' = engineCalls \ {r}
  /\ lastEvent' = Event("engineOk", TRUE, isLoading, r)
  /\ UNCHANGED <<originalImage, error, customPrompt, activeFilter, codecCalls, calls>>

\* runEnhancement after its await: enhanceImage rejected with message msg
EngineReject(r, msg) ==
  /\ r \in engineCalls
  /\ error' = Some(EnhanceErrorText(msg))
  /\ isLoading' = FALSE
  /\ engineCalls' = engineCalls \ {r}
  /\ lastEvent' = Event("engineFail", TRUE, isLoading, r)
  /\ UNCHANGED <<originalImage, enhancedImage, customPrompt, activeFilter, codecCalls, calls>>

\* the session fields as one value
Session == [originalImage |-> originalImage, enhancedImage |-> enhancedImage,
            isLoading |-> isLoading, error |-> error,
            customPrompt |-> customPrompt, activeFilter |-> activeFilter]

\* handleReset without setError(null)
ResetStateKeepsError(s) ==
  [s EXCEPT !.originalImage = Null, !.enhancedImage = Null,
            !.customPrompt = <<>>, !.activeFilter = Null]
\* the five setter calls of handleReset, applied to a session value
ResetState(s) ==
  [s EXCEPT !.originalImage = Null, !.enhancedImage = Null, !.error = Null,
            !.customPrompt = <<>>, !.activeFilter = Null]

\* handleRevert without setError(null)
RevertStateKeepsError(s) ==
  [s EXCEPT !.enhancedImage = Null, !.activeFilter = Null, !.customPrompt = <<>>]
\* the four setter calls of handleRevert, applied to a session value
RevertState(s) ==
  [s EXCEPT !.enhancedImage = Null, !.error = Null, !.activeFilter = Null,
            !.customPrompt = <<>>]

\* the session variables take the values of session value s
Becomes(s) ==
  /\ originalImage' = s.originalImage
  /\ enhancedImage' = s.enhancedImage
  /\ isLoading' = s.isLoading
  /\ error' = s.error
  /\ customPrompt' = s.customPrompt
  /\ activeFilter' = s.activeFilter

handleReset ==
  /\ Becomes(ResetState(Session))
  /\ engineCalls' = {[r EXCEPT !.abandoned = TRUE] : r \in engineCalls}
  /\ lastEvent' = Event("reset", TRUE, isLoading, NoCall)
  /\ UNCHANGED <<codecCalls, calls>>

handleRevert ==
  /\ Becomes(RevertState(Session))
  /\ lastEvent' = Event("revert", TRUE, isLoading, NoCall)
  /\ UNCHANGED <<codecCalls, engineCalls, calls>>

\* the user clicks Start Over
ResetClick ==
  /\ PanelRendered
  /\ IF ResetEnabled THEN handleReset ELSE Rejected("reset")

\* the user clicks Revert All
RevertClick ==
  /\ PanelRendered
  /\ IF RevertEnabled THEN handleRevert ELSE Rejected("revert")

\* The session and its events.  ProgressBar keeps its state to itself and
\* nothing of App reads it, so these behaviours leave it out.
Next ==
  \/ (\E f \in Files : FilePick(f)) /\ UNCHANGED bar
  \/ (\E f \in Files : Drop(f)) /\ UNCHANGED bar
  \/ (\E c \in codecCalls : CodecResolve(c)) /\ UNCHANGED bar
  \/ (\E c \in codecCalls : CodecReject(c)) /\ UNCHANGED bar
  \/ (\E i \in DOMAIN FILTERS : PresetClick(i)) /\ UNCHANGED bar
  \/ (\E t \in PromptTexts : TypePrompt(t)) /\ UNCHANGED bar
  \/ CustomSubmit /\ UNCHANGED bar
  \/ (\E r \in engineCalls : EngineResolve(r)) /\ UNCHANGED bar
  \/ (\E r \in engineCalls, msg \in EngineMessages : EngineReject(r, msg)) /\ UNCHANGED bar
  \/ ResetClick /\ UNCHANGED bar
  \/ RevertClick /\ UNCHANGED bar

Spec == Init /\ [][Next]_vars

\* an outstanding promise settles and its continuation runs
Completion ==
  \/ (\E c \in codecCalls : CodecResolve(c)) /\ UNCHANGED bar
  \/ (\E c \in codecCalls : CodecReject(c)) /\ UNCHANGED bar
  \/ (\E r \in engineCalls : EngineResolve(r)) /\ UNCHANGED bar
  \/ (\E r \in engineCalls, msg \in EngineMessages : EngineReject(r, msg)) /\ UNCHANGED bar

\* the events of Next, with at most n calls started
EventsWithin(n) ==
  \/ (calls < n /\ \E f \in Files : FilePick(f)) /\ UNCHANGED bar
  \/ (calls < n /\ \E f \in Files : Drop(f)) /\ UNCHANGED bar
  \/ (calls < n /\ \E i \in DOMAIN FILTERS : PresetClick(i)) /\ UNCHANGED bar
  \/ (\E t \in PromptTexts : TypePrompt(t)) /\ UNCHANGED bar
  \/ (calls < n /\ CustomSubmit) /\ UNCHANGED bar
  \/ ResetClick /\ UNCHANGED bar
  \/ RevertClick /\ UNCHANGED bar
  \/ Completion

\* the session and its events, explored exhaustively over shorter behaviours
ShortNext == EventsWithin(MaxShortCalls)
ShortSpec == Init /\ [][ShortNext]_vars

\* every outstanding fileToBase64 or enhanceImage promise eventually settles
FairNext == EventsWithin(MaxLiveCalls)
FairSpec == Init /\ [][FairNext]_vars /\ WF_vars(Completion)

\* ---- ProgressBar ----
\* progress is a JavaScript number; it is kept as an integer count of 1/Scale
Scale == 10000
\* setProgress(100)
Full == 100
\* if (prev >= 95) ... return 95
Ceiling == 95
\* (100 - prev) * 0.1
DecayDivisor == 10

\* the updater passed to setProgress by the interval callback
TickValue(prev) ==
  IF prev >= Ceiling * Scale
  THEN Ceiling * Scale
  ELSE prev + ((Full * Scale - prev) \div DecayDivisor)

\* a render of App is committed: ImageViewer, and ProgressBar inside it, exists
\* while originalImage is present; a new instance starts from useState(0) with
\* its effect to run, an existing one has its effect to run when isLoading changed
BarFollows ==
  /\ barMounted' = (originalImage' # Null)
  /\ IF originalImage' = Null
     THEN progress' = 0 /\ barInterval' = FALSE /\ effectDue' = FALSE
     ELSE IF ~barMounted
     THEN progress' = 0 /\ barInterval' = FALSE /\ effectDue' = TRUE
     ELSE /\ progress' = progress
          /\ barInterval' = barInterval
          /\ effectDue' = (effectDue \/ isLoading' # isLoading)

\* the useEffect callback of ProgressBar, after the cleanup of the previous one
BarEffect ==
  /\ barMounted
  /\ effectDue
  /\ effectDue' = FALSE
  /\ IF isLoading
     THEN progress' = 0 /\ barInterval' = TRUE
     ELSE progress' = Full * Scale /\ barInterval' = FALSE
  /\ UNCHANGED <<barMounted, session, codecCalls, engineCalls, calls, lastEvent>>

\* the setInterval callback of ProgressBar, every 200 ms
BarTick ==
  /\ barMounted
  /\ barInterval
  /\ progress' = TickValue(progress)
  /\ barInterval' = (progress < Ceiling * Scale)
  /\ UNCHANGED <<barMounted, effectDue, session, codecCalls, engineCalls, calls, lastEvent>>

\* the events of Next with the ProgressBar following each committed render;
\* pending effects are flushed before the next render
BarNext ==
  \/ (~effectDue /\ calls < MaxBarCalls /\ \E f \in Files : FilePick(f)) /\ BarFollows
  \/ (~effectDue /\ calls < MaxBarCalls /\ \E f \in Files : Drop(f)) /\ BarFollows
  \/ (~effectDue /\ \E c \in codecCalls : CodecResolve(c)) /\ BarFollows
  \/ (~effectDue /\ \E c \in codecCalls : CodecReject(c)) /\ BarFollows
  \/ (~effectDue /\ calls < MaxBarCalls /\ \E i \in DOMAIN FILTERS : PresetClick(i)) /\ BarFollows
  \/ (~effectDue /\ \E t \in PromptTexts : TypePrompt(t)) /\ BarFollows
  \/ (~effectDue /\ calls < MaxBarCalls /\ CustomSubmit) /\ BarFollows
  \/ (~effectDue /\ \E r \in engineCalls : EngineResolve(r)) /\ BarFollows
  \/ (~effectDue /\ \E r \in engineCalls, msg \in EngineMessages : EngineReject(r, msg)) /\ BarFollows
  \/ (~effectDue /\ ResetClick) /\ BarFollows
  \/ (~effectDue /\ RevertClick) /\ BarFollows
  \/ BarEffect
  \/ BarTick

BarSpec == Init /\ [][BarNext]_vars

\* ---- the handlers as operations of the session ----
\* Each handler called as a function, whatever the render shows or disables:
\* the session operations of App taken on their own.
setCustomPrompt(t) ==
  /\ t # customPrompt
  /\ customPrompt' = t
  /\ lastEvent' = Event("type", TRUE, isLoading, NoCall)
  /\ UNCHANGED <<originalImage, enhancedImage, isLoading, error, activeFilter,
                 codecCalls, engineCalls, calls>>

NextHandlers ==
  \/ (\E f \in Files : calls < MaxHandlerCalls /\ handleImageUpload(f, "pick")) /\ UNCHANGED bar
  \/ (\E c \in codecCalls : CodecResolve(c)) /\ UNCHANGED bar
  \/ (\E c \in codecCalls : CodecReject(c)) /\ UNCHANGED bar
  \/ (\E i \in DOMAIN FILTERS : calls < MaxHandlerCalls /\ handleFilterClick(FILTERS[i])) /\ UNCHANGED bar
  \/ (\E t \in PromptTexts : setCustomPrompt(t)) /\ UNCHANGED bar
  \/ (calls < MaxHandlerCalls /\ handleCustomEnhance) /\ UNCHANGED bar
  \/ (\E r \in engineCalls : EngineResolve(r)) /\ UNCHANGED bar
  \/ (\E r \in engineCalls, msg \in EngineMessages : EngineReject(r, msg)) /\ UNCHANGED bar
  \/ handleReset /\ UNCHANGED bar
  \/ handleRevert /\ UNCHANGED bar

SpecHandlers == Init /\ [][NextHandlers]_vars

\* ---- vocabulary of the properties ----
\* the Empty state of the session: no original, no current, no error, no selection
IsEmpty(s) ==
  s.originalImage = Null /\ s.enhancedImage = Null /\ s.error = Null /\ s.activeFilter = Null

\* the enhanceImage calls started by the step
NewEngineCalls == {r \in engineCalls' : \A q \in engineCalls : q.id # r.id}

\* the step is an upload request, by file pick or by drag-and-drop
UploadRequested == \E f \in Files : FilePick(f) \/ Drop(f)

\* the step is a transformation request, by preset or by custom instruction
EditRequested == (\E i \in DOMAIN FILTERS : PresetClick(i)) \/ CustomSubmit

\* C1: at most one enhanceImage call is outstanding in every reachable state.
C1_SingleFlight == Cardinality(engineCalls) <= 1

\* C2: the completion of an enhanceImage call that was outstanding when the
\* session was reset does not set enhancedImage, and an Empty session stays Empty.
C2_StaleResponseDiscarded ==
  [][\A r \in engineCalls :
       r.abandoned /\ EngineResolve(r) =>
         /\ enhancedImage' = enhancedImage
         /\ (IsEmpty(Session) => IsEmpty(Session'))]_vars

\* C3: an upload request that arrives while isLoading is true starts no codec
\* call and leaves originalImage, enhancedImage, error and isLoading unchanged.
C3_UploadWhilePendingRejected ==
  [][isLoading /\ UploadRequested =>
       UNCHANGED <<originalImage, enhancedImage, error, isLoading, codecCalls>>]_vars

\* C4: a preset click or a custom-instruction submit that arrives while
\* isLoading is true changes neither enhancedImage nor error and starts no
\* enhanceImage call.
C4_EditWhilePendingIgnored ==
  [][isLoading /\ EditRequested =>
       UNCHANGED <<enhancedImage, error, engineCalls>>]_vars

\* C4 witness: a transformation request arrived while a call was outstanding
\* and the flag was set.
C4_Witness ==
  /\ lastEvent.op \in {"preset", "custom"}
  /\ lastEvent.wasLoading
  /\ engineCalls # {}

\* C5: Revert All leaves enhancedImage, error and activeFilter absent, keeps
\* originalImage (a loaded file, never the result of a transformation), starts
\* no enhanceImage call, and the transformation requested right after it has
\* originalImage as its source.
C5_RevertRestoresOriginal ==
  [][/\ RevertClick /\ RevertEnabled =>
          /\ enhancedImage' = Null /\ error' = Null /\ activeFilter' = Null
          /\ originalImage' = originalImage
          /\ originalImage' # Null /\ The(originalImage').edits = <<>>
          /\ engineCalls' = engineCalls
     /\ lastEvent.op = "revert" /\ lastEvent.accepted =>
          \A r \in NewEngineCalls : r.source = originalImage]_vars

\* C5 witness: after a successful transformation and a revert, the next
\* transformation was dispatched with the original as its source.
C5_Witness ==
  /\ lastEvent.op \in {"preset", "custom"}
  /\ lastEvent.prev = "revert"
  /\ lastEvent.call.id # 0
  /\ lastEvent.call.source = originalImage
  /\ enhancedImage = Null

\* C6: right after a failed transformation completes, enhancedImage and
\* originalImage are what they were when the request was dispatched, error holds
\* a non-empty text and isLoading is false.
C6_FailureKeepsCurrent ==
  lastEvent.op = "engineFail" =>
    /\ enhancedImage = lastEvent.call.cur
    /\ originalImage = lastEvent.call.orig
    /\ error # Null /\ The(error) # ""
    /\ ~isLoading

\* C7: every enhanceImage call is dispatched with enhancedImage as its source
\* when enhancedImage is present and with originalImage otherwise; right after a
\* successful transformation the source is that transformation's result, and
\* right after a revert it is originalImage.
C7_SourceIsCurrentElseOriginal ==
  [][\A r \in NewEngineCalls :
       /\ r.source # Null
       /\ enhancedImage # Null => r.source = enhancedImage
       /\ enhancedImage = Null => r.source = originalImage
       /\ lastEvent.op = "engineOk" =>
            r.source = Some(EnhanceImage(The(lastEvent.call.source), lastEvent.call.prompt))
       /\ lastEvent.op = "revert" /\ lastEvent.accepted =>
            r.source = originalImage]_vars

\* C7 witness: a chained edit, dispatched right after a successful one, whose
\* source is the earlier result and not the original.
C7_Witness ==
  /\ lastEvent.op \in {"preset", "custom"}
  /\ lastEvent.prev = "engineOk"
  /\ lastEvent.call.id # 0
  /\ lastEvent.call.source = enhancedImage
  /\ lastEvent.call.source # originalImage

\* C8: from every reachable state reset yields the Empty state, a second reset
\* changes nothing, and the state right after Start Over is Empty.
C8_ResetYieldsEmpty ==
  /\ IsEmpty(ResetState(Session))
  /\ ResetState(ResetState(Session)) = ResetState(Session)
  /\ lastEvent.op = "reset" /\ lastEvent.accepted => IsEmpty(Session)

\* C8 witness: Start Over was clicked in a session that held a failed edit.
C8_Witness ==
  /\ lastEvent.op = "reset"
  /\ lastEvent.accepted
  /\ lastEvent.prev = "engineFail"

\* C9: right after a successful load, originalImage is the loaded image and
\* enhancedImage, error and activeFilter are absent.
C9_LoadDiscardsEdits ==
  lastEvent.op = "codecOk" =>
    /\ originalImage = Some(FileToBase64(lastEvent.call.file))
    /\ enhancedImage = Null
    /\ error = Null
    /\ activeFilter = Null

\* C10: right after a load fails in the codec, error is the load error and
\* originalImage and enhancedImage are what they were when the load was requested.
C10_LoadFailureKeepsImages ==
  lastEvent.op = "codecFail" =>
    /\ error = Some(LoadErrorText)
    /\ originalImage = lastEvent.call.orig
    /\ enhancedImage = lastEvent.call.cur

\* C11: handleFilterClick called when neither originalImage nor enhancedImage
\* is present starts no enhanceImage call and changes no session field.
C11_PresetWithoutSourceNoOp ==
  [][\A i \in DOMAIN FILTERS :
       (originalImage = Null /\ enhancedImage = Null /\ handleFilterClick(FILTERS[i])) =>
         UNCHANGED <<isLoading, error, enhancedImage, originalImage, activeFilter,
                     engineCalls>>]_vars

\* the text is empty or consists of spaces only
IsBlank(t) == \A k \in 1..Len(t) : t[k] = " "

\* C12: submitting the custom-instruction form while the text is empty or
\* whitespace-only starts no enhanceImage call and leaves isLoading,
\* enhancedImage, error and activeFilter unchanged.
C12_BlankInstructionIgnored ==
  [][CustomSubmit /\ IsBlank(customPrompt) =>
       UNCHANGED <<isLoading, enhancedImage, error, activeFilter, engineCalls>>]_vars

\* C12 witness: the form was submitted with a whitespace-only text while the
\* session was idle.
C12_Witness ==
  /\ lastEvent.op = "custom"
  /\ ~lastEvent.wasLoading
  /\ customPrompt # <<>>
  /\ IsBlank(customPrompt)

\* C13: once originalImage holds an image, every step other than Start Over
\* leaves it holding that same image.
C13_OriginalSetOnce ==
  [][originalImage # Null /\ ~(ResetClick /\ ResetEnabled) =>
       originalImage' = originalImage]_vars

Completions == {"codecOk", "codecFail", "engineOk", "engineFail"}

\* C14: right after the continuation of a load or of a transformation ran, on
\* the success path and on the failure path, isLoading is false; and whenever
\* isLoading is true it is false again later, given that every outstanding call
\* settles.
C14_NeverStuckPending ==
  /\ [](lastEvent.op \in Completions => ~isLoading)
  /\ (isLoading ~> ~isLoading)

\* C14 witness: a failed call completed while the flag was set and the flag is
\* now clear.
C14_Witness ==
  /\ lastEvent.op \in {"codecFail", "engineFail"}
  /\ lastEvent.wasLoading
  /\ ~isLoading

\* C15: in a rendered ProgressBar the progress value is 0 when isLoading becomes
\* true, is greater after the first tick, is below 100 in every state where
\* isLoading is true, and is exactly 100 when isLoading becomes false.
C15_ProgressContract ==
  [][/\ (barMounted /\ barMounted' /\ ~isLoading /\ isLoading') => progress' = 0
     /\ (isLoading /\ progress = 0 /\ BarTick) => progress' > 0
     /\ (barMounted' /\ isLoading') => progress' < Full * Scale
     /\ (barMounted /\ barMounted' /\ isLoading /\ ~isLoading') => progress' = Full * Scale]_vars

\* C16: while isLoading is true a tick never lowers the progress value, never
\* takes it above the ceiling 95, and leaves it at the ceiling once it is there.
C16_ProgressMonotoneBelowCeiling ==
  [][(isLoading /\ BarTick) =>
       /\ progress' >= progress
       /\ progress' <= Ceiling * Scale
       /\ (progress = Ceiling * Scale => progress' = Ceiling * Scale)]_vars

\* the error texts that a failed transformation leaves
EnhanceErrors == {Some(EnhanceErrorText(m)) : m \in EngineMessages}

\* C17: every step that starts a load or a transformation leaves error absent,
\* and when a transformation dispatched over the error of a failed one
\* succeeds, enhancedImage is its result, error is absent and isLoading is false.
C17_ErrorClearedByNewAttempt ==
  [][/\ calls' = calls + 1 => error' = Null
     /\ \A r \in engineCalls :
          (r.err \in EnhanceErrors /\ EngineResolve(r)) =>
             /\ enhancedImage' = Some(EnhanceImage(The(r.source), r.prompt))
             /\ error' = Null
             /\ ~isLoading']_vars

\* C18: whenever isLoading is false no fileToBase64 call and no enhanceImage
\* call is outstanding.
C18_LoadingFlagAccurate ==
  ~isLoading => codecCalls = {} /\ engineCalls = {}

\* C19: whenever enhancedImage is present originalImage is present.
C19_CurrentImpliesOriginal ==
  enhancedImage # Null => originalImage # Null

\* C20: whenever originalImage and enhancedImage are both present,
\* enhancedImage descends from the file that originalImage holds.
C20_LineageConsistent ==
  (originalImage # Null /\ enhancedImage # Null) =>
    /\ The(enhancedImage).base = The(originalImage).base
    /\ The(enhancedImage).edits # <<>>
====
